---- MODULE Spec2Model ----
(***************************************************************************)
(* A model of src/src/index.js, a Cloudflare Worker (service-worker        *)
(* syntax) that forwards an inbound HTTP request to a caller-chosen target.*)
(*                                                                         *)
(* The script registers three 'fetch' listeners (lines 1, 172, 189) and    *)
(* declares handleRequest twice (lines 5 and 201) and handleCORS twice     *)
(* (lines 159 and 392).  In a classic script a later function declaration  *)
(* of the same name replaces the earlier one before any statement runs, so *)
(* every call of handleRequest, the one in the first listener included,    *)
(* runs the declaration of line 201; lines 5-157 are dead code.            *)
(*                                                                         *)
(* One behaviour of the model is the life of one fetch event: the runtime  *)
(* dispatches it to the listeners (DispatchFetch, which runs the           *)
(* synchronous part of the responding handler up to its first await), and  *)
(* the outbound fetch then settles (FetchResolve, FetchReject).            *)
(*                                                                         *)
(* Strings that the code takes apart (credentials) are sequences of        *)
(* one-character strings; all other strings are opaque TLA+ strings.       *)
(***************************************************************************)
EXTENDS Naturals, Sequences, FiniteSets, TLC

VARIABLES
  env,        \* globalThis: the environment variables read by getEnvVar
  event,      \* the fetch event's request
  pc,         \* "idle" (event not dispatched), "fetching" (handleRequest
              \* suspended at `await fetch`), "done" (response promise settled)
  responder,  \* which handler's promise event.respondWith received
  response,   \* the response delivered to the caller (NoResponse until settled)
  log,        \* console output of the invocation, in order
  stages,     \* pipeline stages the invocation has executed, in order
  outbound,   \* requests handed to fetch(), in order
  locals      \* handleRequest's local variables kept across the await

vars == <<env, event, pc, responder, response, log, stages, outbound, locals>>

----------------------------------------------------------------------------
(* Bounds of the model *)

\* longest decoded credential string enumerated over CredAlphabet
MaxCredLen == 3
\* most query parameters in an inbound URL
MaxQueryLen == 2
\* most optional headers (beyond Authorization and X-Target-URL) in a request
MaxExtraHeaders == 2
\* largest measured fetch duration in ms (0 is falsy in logResponse)
MaxFetchTime == 1

----------------------------------------------------------------------------
(* JavaScript values *)

\* null / undefined results of Headers.get, URLSearchParams.get
Null == [kind |-> "null"]
\* a string: its text is an opaque TLA+ string or a sequence of characters
Str(s) == [kind |-> "string", text |-> s]
\* a string known by its first six characters and the rest (an
\* Authorization header value such as "Basic dTpw")
Prefixed(p, r) == [kind |-> "prefixed", prefix |-> p, rest |-> r]

\* a number
Num(n) == [kind |-> "number", value |-> n]

\* !v for the values the code tests: null, undefined, "" and 0 are falsy
Falsy(v) ==
  \/ v.kind = "null"
  \/ (v.kind = "string" /\ Len(v.text) = 0)
  \/ (v.kind = "number" /\ v.value = 0)

\* a || b
Or(a, b) == IF Falsy(a) THEN b ELSE a

RECURSIVE Split(_, _)
\* String.prototype.split(sep) for a one-character separator: every
\* occurrence of sep cuts the string
Split(s, sep) ==
  IF \A i \in 1..Len(s) : s[i] # sep
    THEN <<s>>
    ELSE LET k == CHOOSE i \in 1..Len(s) :
                    s[i] = sep /\ \A j \in 1..(i - 1) : s[j] # sep
         IN  <<SubSeq(s, 1, k - 1)>> \o Split(SubSeq(s, k + 1, Len(s)), sep)

----------------------------------------------------------------------------
(* Headers: a case-insensitive map.  The Headers class stores names in     *)
(* lower case; ToLower is String.prototype.toLowerCase on the header names *)
(* that occur in the code and in the modelled requests.                    *)

ToLower(n) ==
  CASE n = "Authorization"     -> "authorization"
    [] n = "AUTHORIZATION"     -> "authorization"
    [] n = "X-Target-URL"      -> "x-target-url"
    [] n = "X-Target-Url"      -> "x-target-url"
    [] n = "CF-Connecting-IP"  -> "cf-connecting-ip"
    [] n = "Cf-Connecting-Ip"  -> "cf-connecting-ip"
    [] n = "CF-Ray"            -> "cf-ray"
    [] n = "CF-Visitor"        -> "cf-visitor"
    [] n = "CF-IPCountry"      -> "cf-ipcountry"
    [] n = "X-Forwarded-For"   -> "x-forwarded-for"
    [] n = "X-Forwarded-Proto" -> "x-forwarded-proto"
    [] n = "X-Forwarded-Host"  -> "x-forwarded-host"
    [] n = "Accept"            -> "accept"
    [] n = "User-Agent"        -> "user-agent"
    [] n = "Content-Type"      -> "content-type"
    [] n = "WWW-Authenticate"  -> "www-authenticate"
    [] n = "X-Request-ID"      -> "x-request-id"
    [] n = "X-Proxy-By"        -> "x-proxy-by"
    [] n = "X-Proxy-Time"      -> "x-proxy-time"
    [] n = "Server"            -> "server"
    [] n = "Access-Control-Allow-Origin"   -> "access-control-allow-origin"
    [] n = "Access-Control-Allow-Methods"  -> "access-control-allow-methods"
    [] n = "Access-Control-Allow-Headers"  -> "access-control-allow-headers"
    [] n = "Access-Control-Expose-Headers" -> "access-control-expose-headers"
    [] n = "Access-Control-Max-Age"        -> "access-control-max-age"
    [] OTHER -> n

EmptyHeaders == <<>>

\* Headers.prototype.has / get / set / delete
HeadersHas(h, name) == ToLower(name) \in DOMAIN h
HeadersGet(h, name) == IF HeadersHas(h, name) THEN h[ToLower(name)] ELSE Null
HeadersSet(h, name, value) ==
  [n \in DOMAIN h \cup {ToLower(name)} |->
     IF n = ToLower(name) THEN value ELSE h[n]]
HeadersDelete(h, name) == [n \in DOMAIN h \ {ToLower(name)} |-> h[n]]

RECURSIVE HeadersFrom(_)
\* new Headers(init) for a list of [name, value] pairs
HeadersFrom(pairs) ==
  IF pairs = <<>> THEN EmptyHeaders
  ELSE HeadersSet(HeadersFrom(SubSeq(pairs, 1, Len(pairs) - 1)),
                  pairs[Len(pairs)].name, pairs[Len(pairs)].value)

RECURSIVE HeadersDeleteAll(_, _)
\* names.forEach(header => h.delete(header))
HeadersDeleteAll(h, names) ==
  IF names = <<>> THEN h
  ELSE HeadersDeleteAll(HeadersDelete(h, Head(names)), Tail(names))

----------------------------------------------------------------------------
(* Configuration *)

\* getEnvVar(name, defaultValue): globalThis[name] || defaultValue
getEnvVar(name, defaultValue) == Or(env[name], defaultValue)

DefaultUser == Str(<<"a", "d", "m", "i", "n">>)
DefaultPass == Str(<<"p", "a", "s", "s", "w", "o", "r", "d">>)

\* getEnvVar('REQUIRE_AUTH', 'true') === 'true'
RequireAuth == getEnvVar("REQUIRE_AUTH", Str("true")) = Str("true")

----------------------------------------------------------------------------
(* Authenticator: isAuthenticated, lines 269-290 *)

\* authHeader.startsWith('Basic ')
StartsWithBasic(v) == v.kind = "prefixed" /\ v.prefix = "Basic "

\* atob(s) throws unless s is base64; the payload of a modelled header is
\* either the base64 text of a character string or not base64 at all
AtobThrows(payload) == ~payload.b64
Atob(payload) == payload.decoded

\* const [username, password] = credentials.split(':'): the first two
\* pieces; a missing piece is undefined
Destructure2(parts) ==
  [username |-> Str(parts[1]),
   password |-> IF Len(parts) >= 2 THEN Str(parts[2]) ELSE Null]

CredentialsMatch(credentials) ==
  LET up        == Destructure2(Split(credentials, ":"))
      validUser == getEnvVar("BASIC_AUTH_USER", DefaultUser)
      validPass == getEnvVar("BASIC_AUTH_PASS", DefaultPass)
  IN  up.username = validUser /\ up.password = validPass

isAuthenticated(request) ==
  LET authHeader == HeadersGet(request.headers, "Authorization")
  IN  IF ~RequireAuth THEN TRUE
      ELSE IF Falsy(authHeader) \/ ~StartsWithBasic(authHeader) THEN FALSE
      ELSE IF AtobThrows(authHeader.rest) THEN FALSE   \* catch (e)
      ELSE CredentialsMatch(Atob(authHeader.rest))

----------------------------------------------------------------------------
(* URL and URLSearchParams (WHATWG URL, as the Workers runtime provides)   *)
(*                                                                         *)
(* A URL is [scheme, hostname, pathname, query, opaque].  query is the     *)
(* list of parameters as written in the URL: [name, value, enc], where     *)
(* name and value are the decoded strings and enc tells how the parameter  *)
(* is spelled: "form" as the application/x-www-form-urlencoded serializer  *)
(* spells it (a+b, a%2Fb), "raw" in any other spelling of the same name    *)
(* and value (a%20b, a/b).  opaque: the URL has an opaque path (mailto:).  *)

Param(n, v, e) == [name |-> n, value |-> v, enc |-> e]

\* new URL(s) for the target strings of the model; a string outside the
\* table's domain does not parse as an absolute URL (new URL throws)
URLTable ==
  [s \in {"https://api.example.com/base", "https://api.example.com/base?k=v",
          "http://10.0.0.5/", "ftp://files.example.com/pub",
          "mailto:ops@example.com"} |->
     CASE s = "https://api.example.com/base" ->
            [scheme |-> "https", hostname |-> "api.example.com",
             pathname |-> "/base", query |-> <<>>, opaque |-> FALSE]
       [] s = "https://api.example.com/base?k=v" ->
            [scheme |-> "https", hostname |-> "api.example.com",
             pathname |-> "/base", query |-> <<Param("k", "v", "form")>>,
             opaque |-> FALSE]
       [] s = "http://10.0.0.5/" ->
            [scheme |-> "http", hostname |-> "10.0.0.5",
             pathname |-> "/", query |-> <<>>, opaque |-> FALSE]
       [] s = "ftp://files.example.com/pub" ->
            [scheme |-> "ftp", hostname |-> "files.example.com",
             pathname |-> "/pub", query |-> <<>>, opaque |-> FALSE]
       [] s = "mailto:ops@example.com" ->
            [scheme |-> "mailto", hostname |-> "",
             pathname |-> "ops@example.com", query |-> <<>>, opaque |-> TRUE]]

NewURLThrows(s) == s \notin DOMAIN URLTable
NewURL(s) == URLTable[s]

\* url.searchParams: the parsed list of [name, value] pairs
SearchParams(url) ==
  [i \in 1..Len(url.query) |->
     [name |-> url.query[i].name, value |-> url.query[i].value]]

\* the application/x-www-form-urlencoded serializer: one spelling per pair
SerializeParams(pairs) ==
  [i \in 1..Len(pairs) |-> Param(pairs[i].name, pairs[i].value, "form")]

\* url.searchParams.get(name): the first value of name, or null
SearchParamsGet(url, name) ==
  LET ps == SearchParams(url)
      at == {i \in 1..Len(ps) : ps[i].name = name}
  IN  IF at = {} THEN Null
      ELSE Str(ps[CHOOSE i \in at : \A j \in at : i <= j].value)

\* url.searchParams.delete(name): removes every pair called name, then runs
\* the update steps, which write the serialized list back as the URL's query
SearchParamsDelete(url, name) ==
  LET Keep(p) == p.name # name
  IN  [url EXCEPT !.query = SerializeParams(SelectSeq(SearchParams(url), Keep))]

\* url.pathname = p: ignored when the URL has an opaque path
SetPathname(url, p) == IF url.opaque THEN url ELSE [url EXCEPT !.pathname = p]

\* url.search = other.search
SetSearch(url, q) == [url EXCEPT !.query = q]

----------------------------------------------------------------------------
(* TargetResolver: getTargetUrl, lines 292-324 *)

\* faulty variant: the target parameter is read before the url parameter
TargetCandidates_TargetFirst(url, headers) ==
  <<SearchParamsGet(url, "target"),
    SearchParamsGet(url, "url"),
    HeadersGet(headers, "X-Target-URL")>>

\* the three sources in the order the || chain reads them
TargetCandidates(url, headers) ==
  <<SearchParamsGet(url, "url"),
    SearchParamsGet(url, "target"),
    HeadersGet(headers, "X-Target-URL")>>

\* c[1] || c[2] || c[3]
OrChain(c) == Or(Or(c[1], c[2]), c[3])

UsageHints ==
  [method1 |-> "Add ?url=https://example.com to your request",
   method2 |-> "Add ?target=https://example.com to your request",
   method3 |-> "Add X-Target-URL header with target URL",
   example |-> "https://your-worker.workers.dev?url=https://jsonplaceholder.typicode.com/posts"]

\* faulty variant: validation with a scheme allow-list
TargetIsValid_HttpOnly(targetUrl) ==
  /\ ~NewURLThrows(targetUrl.text)
  /\ NewURL(targetUrl.text).scheme \in {"http", "https"}

\* new URL(targetUrl) inside try: does the value pass validation
TargetIsValid(targetUrl) == ~NewURLThrows(targetUrl.text)

getTargetUrl(url, headers) ==
  LET targetUrl == OrChain(TargetCandidates(url, headers))
  IN  IF Falsy(targetUrl)
        THEN [success |-> FALSE,
              error |-> [error |-> "Missing target URL", usage |-> UsageHints]]
      ELSE IF TargetIsValid(targetUrl)
        THEN [success |-> TRUE, url |-> targetUrl.text]
      ELSE [success |-> FALSE,
            error |-> [error |-> "Invalid target URL",
                       provided |-> targetUrl.text]]

----------------------------------------------------------------------------
(* URLComposer: buildFinalTargetUrl, lines 326-336 *)

buildFinalTargetUrl(targetUrl, originalUrl) ==
  LET cleanUrl == SearchParamsDelete(SearchParamsDelete(originalUrl, "url"),
                                     "target")
      parsed   == NewURL(targetUrl)
      withPath == SetPathname(parsed,
                              IF cleanUrl.pathname = "/" THEN parsed.pathname
                              ELSE cleanUrl.pathname)
  IN  SetSearch(withPath, cleanUrl.query)

----------------------------------------------------------------------------
(* HeaderTransformer: createProxyRequest, lines 338-358 *)

\* faulty variant: the list of lines 342-345 without 'authorization'
headersToRemove_WithoutAuthorization ==
  <<"cf-connecting-ip", "cf-ray", "cf-visitor", "cf-ipcountry",
    "x-target-url">>

headersToRemove ==
  <<"cf-connecting-ip", "cf-ray", "cf-visitor", "cf-ipcountry",
    "x-target-url", "authorization">>

\* the three proxyHeaders.set calls of lines 349-351
SetForwardingHeaders(h, request, originalUrl) ==
  LET h1 == HeadersSet(h, "X-Forwarded-For",
                       Or(HeadersGet(request.headers, "CF-Connecting-IP"),
                          Str("unknown")))
      h2 == HeadersSet(h1, "X-Forwarded-Proto", Str("https"))
  IN  HeadersSet(h2, "X-Forwarded-Host", Str(originalUrl.hostname))

createProxyRequest(request, finalTargetUrl, originalUrl) ==
  LET proxyHeaders == HeadersDeleteAll(request.headers, headersToRemove)
  IN  [url     |-> finalTargetUrl,
       method  |-> request.method,
       headers |-> SetForwardingHeaders(proxyHeaders, request, originalUrl),
       body    |-> IF request.method # "GET" /\ request.method # "HEAD"
                     THEN request.body ELSE Null]

----------------------------------------------------------------------------
(* Responses *)

\* JSON.stringify(obj): a string holding the JSON text of obj
JSONStringify(obj) == [kind |-> "json", value |-> obj]

\* new Response(body, {status, statusText, headers}): a string body gets the
\* Content-Type text/plain;charset=UTF-8 unless the headers name one
NewResponse(body, status, statusText, headers) ==
  [status     |-> status,
   statusText |-> statusText,
   body       |-> body,
   headers    |-> IF body.kind \in {"string", "json"}
                     /\ ~HeadersHas(headers, "Content-Type")
                    THEN HeadersSet(headers, "Content-Type",
                                    Str("text/plain;charset=UTF-8"))
                    ELSE headers]

AllowMethods == Str("GET, POST, PUT, DELETE, PATCH, OPTIONS")

\* the 401 of lines 213-219
UnauthorizedResponse ==
  NewResponse(Str("Unauthorized"), 401, "",
    HeadersFrom(<<[name |-> "WWW-Authenticate",
                   value |-> Str("Basic realm=\"Proxy API\"")],
                  [name |-> "Access-Control-Allow-Origin", value |-> Str("*")]>>))

\* lines 392-402 (the declaration that is in force; lines 159-169 are the same)
handleCORS ==
  NewResponse(Null, 204, "",
    HeadersFrom(<<[name |-> "Access-Control-Allow-Origin", value |-> Str("*")],
                  [name |-> "Access-Control-Allow-Methods", value |-> AllowMethods],
                  [name |-> "Access-Control-Allow-Headers", value |-> Str("*")],
                  [name |-> "Access-Control-Max-Age", value |-> Str("86400")]>>))

\* faulty variant: the error response without its Content-Type header
createErrorResponse_NoContentType(errorData, status) ==
  NewResponse(JSONStringify(errorData), status, "",
    HeadersFrom(<<[name |-> "Access-Control-Allow-Origin", value |-> Str("*")]>>))

\* lines 382-390
createErrorResponse(errorData, status) ==
  NewResponse(JSONStringify(errorData), status, "",
    HeadersFrom(<<[name |-> "Content-Type", value |-> Str("application/json")],
                  [name |-> "Access-Control-Allow-Origin", value |-> Str("*")]>>))

\* lines 360-380
createProxyResponse(upstream, targetUrl, requestId, fetchTime) ==
  LET r  == NewResponse(upstream.body, upstream.status, upstream.statusText,
                        upstream.headers)
      h1 == HeadersSet(r.headers, "Access-Control-Allow-Origin", Str("*"))
      h2 == HeadersSet(h1, "Access-Control-Allow-Methods", AllowMethods)
      h3 == HeadersSet(h2, "Access-Control-Allow-Headers", Str("*"))
      h4 == HeadersSet(h3, "Access-Control-Expose-Headers", Str("*"))
      h5 == HeadersSet(h4, "X-Proxy-By", Str("Cloudflare-Worker"))
      h6 == HeadersSet(h5, "X-Target-URL", Str(targetUrl))
      h7 == HeadersSet(h6, "X-Request-ID", Str(requestId))
      h8 == HeadersSet(h7, "X-Proxy-Time", Str(<<fetchTime, "ms">>))
  IN  [r EXCEPT !.headers = h8]

\* lines 404-423; new Date().toISOString() is the opaque string "now"
handleHealthCheck(request, requestId) ==
  NewResponse(
    JSONStringify([status |-> "healthy", timestamp |-> "now",
                   service |-> "HTTP Proxy Worker",
                   environment |-> getEnvVar("ENVIRONMENT", Str("production")),
                   requestId |-> requestId,
                   auth_required |-> RequireAuth]),
    200, "",
    HeadersFrom(<<[name |-> "Content-Type", value |-> Str("application/json")],
                  [name |-> "Access-Control-Allow-Origin", value |-> Str("*")],
                  [name |-> "X-Request-ID", value |-> Str(requestId)]>>))

\* the response the second listener builds, lines 175-184
InlineHealthResponse ==
  NewResponse(
    JSONStringify([status |-> "healthy", timestamp |-> "now",
                   service |-> "HTTP Proxy Worker"]),
    200, "",
    HeadersFrom(<<[name |-> "Content-Type", value |-> Str("application/json")],
                  [name |-> "Access-Control-Allow-Origin", value |-> Str("*")]>>))

----------------------------------------------------------------------------
(* Observer *)

\* the console.log of line 208
RequestLine(requestId) == [kind |-> "REQUEST", requestId |-> requestId]

\* logResponse, lines 429-433: one console.log; fetchTime 0 or null prints
\* no fetch part
logResponse(requestId, resp, status, fetchTime) ==
  [kind |-> "RESPONSE", requestId |-> requestId, code |-> resp.status,
   status |-> status, fetch |-> ~Falsy(fetchTime)]

\* the console.error of line 256
ErrorLine(requestId) == [kind |-> "ERROR", requestId |-> requestId]

----------------------------------------------------------------------------
(* Orchestrator: handleRequest, lines 201-267 *)

\* line 211-212: requireAuth && !isAuthenticated(request)
AuthGateRejects(request) == RequireAuth /\ ~isAuthenticated(request)

\* faulty variant: the method compared with a misspelled name
IsPreflight_Misspelled(request) == request.method = "OPTION"

\* line 225
IsPreflight(request) == request.method = "OPTIONS"

\* a return before the await: the promise settles with resp
Returned(requestId, resp, tag, ran) ==
  [pc       |-> "done",
   response |-> resp,
   log      |-> <<RequestLine(requestId),
                  logResponse(requestId, resp, tag, Null)>>,
   stages   |-> ran,
   outbound |-> <<>>,
   locals   |-> [requestId |-> requestId]]

\* handleRequest from its first statement to `await fetch(proxyRequest)`
\* (line 245) or to the return it takes before that
HandleRequestStart(request, requestId) ==
  LET url == request.url
  IN  IF AuthGateRejects(request)
        THEN Returned(requestId, UnauthorizedResponse, "AUTH_FAILED",
                      <<"auth">>)
      ELSE IF IsPreflight(request)
        THEN Returned(requestId, handleCORS, "CORS_PREFLIGHT",
                      <<"auth", "cors">>)
      ELSE
        LET targetUrl == getTargetUrl(url, request.headers)
        IN  IF ~targetUrl.success
              THEN Returned(requestId,
                            createErrorResponse(targetUrl.error, 400),
                            "INVALID_TARGET", <<"auth", "cors", "resolve">>)
            ELSE
              LET finalTargetUrl == buildFinalTargetUrl(targetUrl.url, url)
                  proxyRequest   ==
                    createProxyRequest(request, finalTargetUrl, url)
              IN  [pc       |-> "fetching",
                   response |-> Null,
                   log      |-> <<RequestLine(requestId)>>,
                   stages   |-> <<"auth", "cors", "resolve", "compose",
                                  "transform", "fetch">>,
                   outbound |-> <<proxyRequest>>,
                   locals   |-> [requestId |-> requestId,
                                 targetUrl |-> targetUrl.url]]

\* lines 246-252: fetch fulfilled with upstream after fetchTime ms
HandleRequestResume(upstream, fetchTime) ==
  LET proxyResponse == createProxyResponse(upstream, locals.targetUrl,
                                           locals.requestId, fetchTime)
  IN  [response |-> proxyResponse,
       log      |-> <<logResponse(locals.requestId, proxyResponse, "SUCCESS",
                                  Num(fetchTime))>>]

\* faulty variant: the catch block returns its 502 without logging it
HandleRequestCatch_Unlogged(message) ==
  [response |-> createErrorResponse([error     |-> "Proxy request failed",
                                     message   |-> message,
                                     requestId |-> locals.requestId], 502),
   log      |-> <<ErrorLine(locals.requestId)>>]

\* lines 254-266: the catch block, entered when fetch rejects
HandleRequestCatch(message) ==
  LET resp == createErrorResponse([error     |-> "Proxy request failed",
                                   message   |-> message,
                                   requestId |-> locals.requestId], 502)
  IN  [response |-> resp,
       log      |-> <<ErrorLine(locals.requestId),
                      logResponse(locals.requestId, resp, "ERROR", Null)>>]

----------------------------------------------------------------------------
(* The three fetch listeners, in registration order *)

IsHealthPath(url) == url.pathname = "/health" \/ url.pathname = "/ping"

\* does listener i call event.respondWith for this request
\*   1 (lines 1-3): always;  2 (lines 172-186): on a health path;
\*   3 (lines 189-199): always
CallsRespondWith(i, request) ==
  CASE i = 1 -> TRUE
    [] i = 2 -> IsHealthPath(request.url)
    [] i = 3 -> TRUE

\* the handler whose result listener i passes to respondWith
HandlerOf(i, request) ==
  CASE i = 1 -> "handleRequest"
    [] i = 2 -> "inlineHealth"
    [] i = 3 -> IF IsHealthPath(request.url) THEN "handleHealthCheck"
                ELSE "handleRequest"

\* The Workers runtime delivers a fetch event to the listeners in
\* registration order and goes on to the next listener only while none has
\* called respondWith (respondWith stops the propagation, and a second call
\* on the same event would throw InvalidStateError): the first listener that
\* calls respondWith supplies the response the caller receives.
RespondingListener(request) ==
  CHOOSE i \in 1..3 :
    CallsRespondWith(i, request)
      /\ \A j \in 1..(i - 1) : ~CallsRespondWith(j, request)

----------------------------------------------------------------------------
(* Inputs: the environments and requests the behaviours start from *)

SeqsUpTo(S, n) == UNION {[1..k -> S] : k \in 0..n}

\* request.headers for a set of header lines with distinct names
HeadersOf(lines) ==
  [n \in {ToLower(l.name) : l \in lines} |->
     (CHOOSE l \in lines : ToLower(l.name) = n).value]

Line(n, v) == [name |-> n, value |-> v]

Stream == [kind |-> "stream"]

\* an inbound request: the worker is served over https; only POST carries a
\* body
Request(method, hostname, pathname, query, lines) ==
  [method  |-> method,
   url     |-> [scheme |-> "https", hostname |-> hostname,
                pathname |-> pathname, query |-> query, opaque |-> FALSE],
   headers |-> HeadersOf(lines),
   body    |-> IF method = "POST" THEN Stream ELSE Null]

Env(requireAuth, user, pass) ==
  [REQUIRE_AUTH |-> requireAuth, BASIC_AUTH_USER |-> user,
   BASIC_AUTH_PASS |-> pass, ENVIRONMENT |-> Null]

\* "Basic " + btoa(credentials)
Basic(credentials) ==
  Prefixed("Basic ", [b64 |-> TRUE, decoded |-> credentials])
\* "Basic " followed by text that is not base64
BasicGarbage == Prefixed("Basic ", [b64 |-> FALSE, decoded |-> <<>>])
\* "basic " + btoa(credentials): the scheme in lower case
LowerBasic(credentials) ==
  Prefixed("basic ", [b64 |-> TRUE, decoded |-> credentials])

CustomUser == Str(<<"u">>)
CustomPass == Str(<<"p", ":", "q">>)

AdminPassword == DefaultUser.text \o <<":">> \o DefaultPass.text

\* the environments of the pipeline specification
PipelineEnvs ==
  {Env(r, c[1], c[2]) :
     r \in {Null, Str("true"), Str("false")},
     c \in {<<Null, Null>>, <<CustomUser, CustomPass>>}}

\* Authorization header lines of the pipeline specification (none, the
\* default credentials, the default credentials with a further ":x", the
\* custom credentials, a wrong password, text that is not base64)
PipelineAuthLines ==
  {{}, {Line("Authorization", Basic(AdminPassword))},
   {Line("authorization", Basic(AdminPassword \o <<":", "x">>))},
   {Line("Authorization", Basic(<<"u", ":", "p", ":", "q">>))},
   {Line("AUTHORIZATION", Basic(<<"u", ":", "x">>))},
   {Line("Authorization", BasicGarbage)}}

PipelineTargetLines ==
  {{}, {Line("X-Target-URL", Str("https://api.example.com/base"))}}

PipelineParams ==
  {Param("url", "https://api.example.com/base", "raw"),
   Param("url", "", "form"),
   Param("url", "not a url", "raw"),
   Param("target", "ftp://files.example.com/pub", "raw")}

PipelineRequests ==
  {Request(m, "proxy.example.workers.dev", p, q, a \cup t) :
     m \in {"GET", "POST", "OPTIONS"},
     p \in {"/", "/v1/items", "/health", "/ping"},
     q \in SeqsUpTo(PipelineParams, MaxQueryLen),
     a \in PipelineAuthLines,
     t \in PipelineTargetLines}

\* what the target may answer
UpstreamResponses ==
  {[status |-> 200, statusText |-> "OK", body |-> Stream,
    headers |-> HeadersOf({Line("Content-Type", Str("text/html")),
                           Line("Server", Str("nginx"))})],
   [status |-> 404, statusText |-> "Not Found", body |-> Stream,
    headers |-> HeadersOf({Line("Access-Control-Allow-Origin",
                                Str("https://app.example.com"))})],
   [status |-> 204, statusText |-> "No Content", body |-> Null,
    headers |-> HeadersOf({Line("Server", Str("nginx"))})]}

\* error.message of a rejected fetch
FetchErrors == {"Network connection lost", "internal error"}

\* generateRequestId, lines 425-427: a random string
RequestIds == {"k3j9x2m1q-lf8z0a", "z8w1v7c4b-lf8z0b"}

FetchTimes == 0..MaxFetchTime

----------------------------------------------------------------------------
(* The state machine *)

InitWith(envs, requests) ==
  /\ env \in envs
  /\ event \in requests
  /\ pc = "idle"
  /\ responder = "none"
  /\ response = Null
  /\ log = <<>>
  /\ stages = <<>>
  /\ outbound = <<>>
  /\ locals = Null

Init == InitWith(PipelineEnvs, PipelineRequests)

\* The runtime dispatches the event; the responding listener runs its
\* handler up to the handler's first await.
DispatchFetch ==
  /\ pc = "idle"
  /\ \E requestId \in RequestIds :
       LET handler == HandlerOf(RespondingListener(event), event)
           r == CASE handler = "handleRequest" ->
                       HandleRequestStart(event, requestId)
                  [] handler = "inlineHealth" ->
                       [pc |-> "done", response |-> InlineHealthResponse,
                        log |-> <<>>, stages |-> <<>>, outbound |-> <<>>,
                        locals |-> Null]
                  [] handler = "handleHealthCheck" ->
                       [pc |-> "done",
                        response |-> handleHealthCheck(event, requestId),
                        log |-> <<>>, stages |-> <<>>, outbound |-> <<>>,
                        locals |-> Null]
       IN  /\ responder' = handler
           /\ pc' = r.pc
           /\ response' = r.response
           /\ log' = r.log
           /\ stages' = r.stages
           /\ outbound' = r.outbound
           /\ locals' = r.locals
  /\ UNCHANGED <<env, event>>

\* fetch(proxyRequest) is fulfilled: lines 246-252 run
FetchResolve ==
  /\ pc = "fetching"
  /\ \E upstream \in UpstreamResponses, fetchTime \in FetchTimes :
       LET r == HandleRequestResume(upstream, fetchTime)
       IN  /\ response' = r.response
           /\ log' = log \o r.log
  /\ pc' = "done"
  /\ stages' = Append(stages, "decorate")
  /\ UNCHANGED <<env, event, responder, outbound, locals>>

\* fetch(proxyRequest) is rejected, or new Request / fetch throws at once:
\* either way control enters the catch block of lines 254-266
FetchReject ==
  /\ pc = "fetching"
  /\ \E message \in FetchErrors :
       LET r == HandleRequestCatch(message)
       IN  /\ response' = r.response
           /\ log' = log \o r.log
  /\ pc' = "done"
  /\ stages' = Append(stages, "catch")
  /\ UNCHANGED <<env, event, responder, outbound, locals>>

Next == DispatchFetch \/ FetchResolve \/ FetchReject

Spec == Init /\ [][Next]_vars

----------------------------------------------------------------------------
(* The same machine started from other inputs *)

\* Outcomes: a delivered event is dispatched and the fetch promise settles
\* (the runtime fulfils or rejects it), so Next is taken while it is enabled
OutcomeRequests ==
  {Request(m, "proxy.example.workers.dev", p, q, a \cup t) :
     m \in {"GET", "POST", "OPTIONS"},
     p \in {"/", "/v1/items"},
     q \in SeqsUpTo({Param("url", "https://api.example.com/base", "raw"),
                     Param("url", "not a url", "raw")}, MaxQueryLen),
     a \in {{}, {Line("Authorization", Basic(AdminPassword))}},
     t \in PipelineTargetLines}

FairInit ==
  InitWith({Env(Null, Null, Null), Env(Str("false"), Null, Null)},
           OutcomeRequests)

FairSpec == FairInit /\ [][Next]_vars /\ WF_vars(Next)

\* Authenticator: every credential string over a small alphabet
CredAlphabet == {"u", "p", ":"}

AuthEnvs ==
  {Env(r, u, p) :
     r \in {Null, Str("true"), Str("false")},
     u \in {Null, Str(<<"u">>)},
     p \in {Null, Str(<<"p">>), Str(<<":">>)}}

AuthLines ==
  {{}, {Line("Authorization", BasicGarbage)},
   {Line("Authorization", Str(""))},
   {Line("Authorization", LowerBasic(<<"u", ":", "p">>))},
   {Line("Authorization", Basic(AdminPassword))},
   {Line("Authorization", Basic(AdminPassword \o <<":", "x">>))}}
  \cup {{Line("Authorization", Basic(c))} :
          c \in SeqsUpTo(CredAlphabet, MaxCredLen)}

AuthRequests ==
  {Request("GET", "proxy.example.workers.dev", "/",
           <<Param("url", "https://api.example.com/base", "raw")>>, a) :
     a \in AuthLines}

AuthInit == InitWith(AuthEnvs, AuthRequests)
AuthSpec == AuthInit /\ [][Next]_vars

\* URLComposer: every short query over targets and ordinary parameters
UrlParams ==
  {Param("url", t, "raw") : t \in DOMAIN URLTable}
  \cup {Param("target", "https://api.example.com/base", "raw"),
        Param("x", "1", "form"),
        Param("q", "a b", "form"),     \* q=a+b
        Param("q", "a b", "raw")}      \* q=a%20b

UrlTargetLines ==
  {{}, {Line("X-Target-URL", Str("https://api.example.com/base?k=v"))},
   {Line("X-Target-URL", Str("mailto:ops@example.com"))}}

UrlRequests ==
  {Request(m, "proxy.example.workers.dev", p, q, t) :
     m \in {"GET", "POST"},
     p \in {"/", "/v1/items"},
     q \in SeqsUpTo(UrlParams, MaxQueryLen),
     t \in UrlTargetLines}

UrlInit == InitWith({Env(Str("false"), Null, Null)}, UrlRequests)
UrlSpec == UrlInit /\ [][Next]_vars

\* HeaderTransformer: every small set of further header lines
ExtraLines ==
  {Line("CF-Connecting-IP", Str("203.0.113.7")),
   Line("Cf-Connecting-Ip", Str("")),
   Line("CF-Ray", Str("8a1b2c3d4e5f-AMS")),
   Line("cf-visitor", Str("{\"scheme\":\"https\"}")),
   Line("CF-IPCountry", Str("NL")),
   Line("X-Target-Url", Str("http://10.0.0.5/")),
   Line("X-Forwarded-For", Str("198.51.100.9")),
   Line("x-forwarded-proto", Str("http")),
   Line("X-Forwarded-Host", Str("internal.example")),
   Line("Accept", Str("*/*")),
   Line("User-Agent", Str("curl/8.4.0"))}

DistinctNames(lines) ==
  \A a, b \in lines : ToLower(a.name) = ToLower(b.name) => a = b

HdrLineSets ==
  {a \cup x :
     a \in {{}, {Line("Authorization", Basic(AdminPassword))},
            {Line("AUTHORIZATION", Basic(AdminPassword))}},
     x \in {y \in SUBSET ExtraLines :
              Cardinality(y) <= MaxExtraHeaders /\ DistinctNames(y)}}

HdrRequests ==
  {Request(m, h, "/v1/items",
           <<Param("url", "https://api.example.com/base", "raw")>>, l) :
     m \in {"GET", "POST"},
     h \in {"proxy.example.workers.dev"},
     l \in HdrLineSets}

HdrInit ==
  InitWith({Env(Null, Null, Null), Env(Str("false"), Null, Null)}, HdrRequests)
HdrSpec == HdrInit /\ [][Next]_vars

----------------------------------------------------------------------------
(* Vocabulary of the properties *)

\* the event went through the proxy pipeline (handleRequest answered it)
InPipeline == pc # "idle" /\ responder = "handleRequest"

\* the classification tag of the outcome entry, once the response is settled
Outcome == log[Len(log)].status

HeaderIs(resp, name, text) == HeadersGet(resp.headers, name) = Str(text)

IsJsonWith(resp, fields) ==
  resp.body.kind = "json" /\ fields \subseteq DOMAIN resp.body.value

\* the configuration asks for authentication: REQUIRE_AUTH is "true", which
\* is also its default when unset
AuthRequired == env.REQUIRE_AUTH \in {Null, Str("true")}

ConfiguredUser ==
  IF env.BASIC_AUTH_USER = Null THEN DefaultUser ELSE env.BASIC_AUTH_USER
ConfiguredPass ==
  IF env.BASIC_AUTH_PASS = Null THEN DefaultPass ELSE env.BASIC_AUTH_PASS

HasColon(s) == \E i \in 1..Len(s) : s[i] = ":"
FirstColon(s) == CHOOSE i \in 1..Len(s) : s[i] = ":" /\ \A j \in 1..(i - 1) : s[j] # ":"

\* the header is "Basic " + base64(user ":" pass) for the configured user
\* and pass, the credential string being split at its first ":" only
CorrectAuthorization(request) ==
  /\ HeadersHas(request.headers, "Authorization")
  /\ LET v == HeadersGet(request.headers, "Authorization")
     IN  /\ v.kind = "prefixed"
         /\ v.prefix = "Basic "
         /\ v.rest.b64
         /\ HasColon(v.rest.decoded)
         /\ LET c == v.rest.decoded
                k == FirstColon(c)
            IN  /\ Str(SubSeq(c, 1, k - 1)) = ConfiguredUser
                /\ Str(SubSeq(c, k + 1, Len(c))) = ConfiguredPass

\* the pipeline stopped at the auth gate
StoppedAtGate == stages = <<"auth">>

----------------------------------------------------------------------------
(* C1 *)

\* C1: every request to /health or /ping is answered by a health handler
\* with status 200 and a JSON body whose status is "healthy", whatever the
\* auth configuration and the Authorization header; the auth gate and the
\* proxy pipeline never answer these paths.
C1_HealthAnswered ==
  (pc = "done" /\ IsHealthPath(event.url)) =>
     /\ responder \in {"inlineHealth", "handleHealthCheck"}
     /\ response.status = 200
     /\ IsJsonWith(response, {"status"})
     /\ response.body.value.status = "healthy"

----------------------------------------------------------------------------
(* C2 *)

\* C2: the auth gate rejects a pipeline request exactly when authentication
\* is required and the Authorization header is missing or incorrect; the
\* rejection is a 401 with WWW-Authenticate: Basic realm="Proxy API" and
\* neither target resolution nor an outbound forward happens; with
\* REQUIRE_AUTH "false" a request without Authorization is never answered by
\* the gate and goes on to the later stages.
C2_GateRejectsExactlyBadCredentials ==
  InPipeline =>
     /\ StoppedAtGate <=> (AuthRequired /\ ~CorrectAuthorization(event))
     /\ StoppedAtGate =>
          /\ response.status = 401
          /\ HeaderIs(response, "WWW-Authenticate", "Basic realm=\"Proxy API\"")
          /\ outbound = <<>>
     /\ (env.REQUIRE_AUTH = Str("false")
           /\ ~HeadersHas(event.headers, "Authorization")) =>
          /\ Len(stages) >= 2
          /\ (pc = "done" => Outcome # "AUTH_FAILED")

----------------------------------------------------------------------------
(* C4 *)

\* the pipeline answered with one of its own error responses
ErrorOutcome ==
  InPipeline /\ pc = "done"
    /\ Outcome \in {"AUTH_FAILED", "INVALID_TARGET", "ERROR"}

JsonErrorContract(resp) ==
  /\ IsJsonWith(resp, {"error"})
  /\ HeaderIs(resp, "Content-Type", "application/json")
  /\ HeaderIs(resp, "Access-Control-Allow-Origin", "*")

----------------------------------------------------------------------------
(* C5 *)

CorsHeaders(resp) ==
  /\ HeaderIs(resp, "Access-Control-Allow-Origin", "*")
  /\ HeadersGet(resp.headers, "Access-Control-Allow-Methods") = AllowMethods
  /\ HeaderIs(resp, "Access-Control-Allow-Headers", "*")
  /\ HeaderIs(resp, "Access-Control-Max-Age", "86400")

\* C5: an OPTIONS request that passes the auth gate (authentication not
\* required, or the authenticator accepts it) is answered 204 with no body
\* and the four CORS headers before target resolution, with or without a
\* target and without any outbound forward; an OPTIONS request that fails
\* the gate is answered 401, never 204.
C5_PreflightAfterGate ==
  (InPipeline /\ event.method = "OPTIONS") =>
     /\ pc = "done"
     /\ outbound = <<>>
     /\ IF ~AuthRequired \/ isAuthenticated(event)
          THEN /\ response.status = 204
               /\ response.body = Null
               /\ CorsHeaders(response)
               /\ Outcome = "CORS_PREFLIGHT"
               /\ stages = <<"auth", "cors">>
          ELSE /\ response.status = 401
               /\ Outcome = "AUTH_FAILED"
               /\ stages = <<"auth">>

\* an authenticated OPTIONS request without any target got its 204
C5_Witness ==
  /\ InPipeline
  /\ event.method = "OPTIONS"
  /\ AuthRequired
  /\ event.url.query = <<>>
  /\ ~HeadersHas(event.headers, "X-Target-URL")
  /\ response # Null
  /\ response.status = 204

----------------------------------------------------------------------------
(* C6 *)

\* the request reached target resolution
Resolved == InPipeline /\ Len(stages) >= 3

\* the target was accepted and handed to URL composition and the forwarder
Accepted == InPipeline /\ Len(stages) >= 6

\* the values of the three sources of the event, in the documented order
SourceValues ==
  <<SearchParamsGet(event.url, "url"),
    SearchParamsGet(event.url, "target"),
    IF "x-target-url" \in DOMAIN event.headers
      THEN event.headers["x-target-url"] ELSE Null>>

IsPresent(v) == v # Null
IsNonEmpty(v) == v # Null /\ v # Str("")

\* the first of the source values at the positions `at`, or null
FirstAt(at) ==
  IF at = {} THEN Null
  ELSE SourceValues[CHOOSE i \in at : \A j \in at : i <= j]

FirstPresent == FirstAt({i \in 1..3 : IsPresent(SourceValues[i])})
FirstNonEmpty == FirstAt({i \in 1..3 : IsNonEmpty(SourceValues[i])})

\* what resolution must have done when `chosen` is the value it picks
ResolvedAs(chosen) ==
  IF chosen = Null
    THEN /\ pc = "done"
         /\ response.status = 400
         /\ IsJsonWith(response, {"error", "usage"})
         /\ response.body.value.error = "Missing target URL"
         /\ outbound = <<>>
  ELSE IF NewURLThrows(chosen.text)
    THEN /\ pc = "done"
         /\ response.status = 400
         /\ IsJsonWith(response, {"error", "provided"})
         /\ response.body.value.error = "Invalid target URL"
         /\ response.body.value.provided = chosen.text
         /\ outbound = <<>>
  ELSE /\ Accepted
       /\ locals.targetUrl = chosen.text
       /\ Len(outbound) = 1

\* C6 as stated: resolution takes the first PRESENT value in the order
\* query parameter url, query parameter target, header X-Target-URL; none
\* present gives the 400 "Missing target URL" with usage hints, a chosen
\* value that is no absolute URL gives the 400 "Invalid target URL" with the
\* raw value under provided, and neither error forwards anything.
C6_FirstPresentWins == Resolved => ResolvedAs(FirstPresent)

\* C6 amended: resolution takes the first NON-EMPTY value in that order (a
\* source that is present with an empty value is passed over like an absent
\* one, and "Missing target URL" is the answer when no source has a
\* non-empty value); the rest as stated.
C6_FirstNonEmptyWins == Resolved => ResolvedAs(FirstNonEmpty)

\* an empty url parameter was passed over and the target parameter forwarded
C6_Witness ==
  /\ Accepted
  /\ SourceValues[1] = Str("")
  /\ IsNonEmpty(SourceValues[2])
  /\ locals.targetUrl = SourceValues[2].text

----------------------------------------------------------------------------
(* C7 *)

\* C7 as stated: every accepted target is an absolute URL whose scheme is
\* http or https; a value with any other scheme is rejected as invalid.
C7_AcceptedTargetIsHttp ==
  Accepted => NewURL(locals.targetUrl).scheme \in {"http", "https"}

\* C7 amended: the accepted targets are exactly the chosen values that parse
\* as an absolute URL, whatever the scheme: a parseable value with another
\* scheme (ftp:, mailto:) is accepted and reaches URL composition and the
\* forwarder with its scheme, and only a value that does not parse is
\* rejected as an invalid target.
C7_AcceptedTargetIsAbsoluteUrl ==
  Resolved =>
     LET chosen == FirstNonEmpty
     IN  /\ Accepted => ~NewURLThrows(locals.targetUrl)
         /\ (chosen # Null /\ ~NewURLThrows(chosen.text)) =>
              /\ Accepted
              /\ outbound[1].url.scheme = NewURL(chosen.text).scheme
         /\ (chosen # Null /\ NewURLThrows(chosen.text)) =>
              /\ ~Accepted
              /\ response.body.value.error = "Invalid target URL"

\* an ftp: target was accepted and handed to fetch
C7_Witness ==
  /\ Accepted
  /\ NewURL(locals.targetUrl).scheme = "ftp"
  /\ outbound[1].url.scheme = "ftp"

----------------------------------------------------------------------------
(* C10 *)

ResponseEntries == {i \in 1..Len(log) : log[i].kind = "RESPONSE"}

\* the logged tag agrees with the response that was returned
TagMatchesResponse ==
  CASE Outcome = "AUTH_FAILED"    -> response = UnauthorizedResponse
    [] Outcome = "CORS_PREFLIGHT" -> response.status = 204 /\ response.body = Null
    [] Outcome = "INVALID_TARGET" -> response.status = 400
    [] Outcome = "SUCCESS"        ->
         /\ Len(outbound) = 1
         /\ \E u \in UpstreamResponses :
              /\ response.status = u.status
              /\ response.statusText = u.statusText
              /\ response.body = u.body
    [] Outcome = "ERROR"          -> response.status = 502
    [] OTHER -> FALSE

C10_OneOutcome ==
  InPipeline =>
     /\ log[1].kind = "REQUEST"
     /\ Len(outbound) <= 1
     /\ pc = "fetching" => (response = Null /\ ResponseEntries = {})
     /\ pc = "done" =>
          /\ response # Null
          /\ ResponseEntries = {Len(log)}
          /\ Len(log) > 1
          /\ log[Len(log)].code = response.status
          /\ TagMatchesResponse
          /\ stages[Len(stages)] = "catch" =>
               (Outcome = "ERROR" /\ response.status = 502)

\* C10: every request entering the pipeline ends with exactly one response
\* and exactly one outcome entry, logged after the request-start entry, whose
\* tag is one of AUTH_FAILED, CORS_PREFLIGHT, INVALID_TARGET, SUCCESS, ERROR
\* and matches the response returned; a failed forward ends in the 502, not
\* in an unhandled fault.
C10_ExactlyOneOutcome == []C10_OneOutcome /\ <>(pc = "done")

\* a failed forward was recovered into the 502 and logged once
C10_Witness ==
  /\ InPipeline
  /\ pc = "done"
  /\ stages[Len(stages)] = "catch"
  /\ response.status = 502
  /\ Cardinality(ResponseEntries) = 1

----------------------------------------------------------------------------
(* C3 *)

\* C3: with authentication required, the authenticator accepts a request if
\* and only if its header is "Basic " + base64 of a credential string whose
\* part before the FIRST ":" equals the configured user and whose part after
\* it (further ":" included) equals the configured pass; a header without
\* the prefix or with undecodable base64 is a failure (the 401), not an
\* exception.
C3_SplitsAtFirstColon ==
  (InPipeline /\ AuthRequired) =>
     /\ ~StoppedAtGate <=> CorrectAuthorization(event)
     /\ StoppedAtGate => (pc = "done" /\ Outcome = "AUTH_FAILED")

----------------------------------------------------------------------------
(* C8 *)

IsRoutingParam(p) == p.name \in {"url", "target"}
IsForwardedParam(p) == ~IsRoutingParam(p)

\* C8: for every accepted target and inbound URL the final URL keeps the
\* target's scheme and host, its path is the target's own path when the
\* inbound path is exactly "/" and the inbound path verbatim otherwise, and
\* its query is the inbound query string with every url and target key
\* removed (the target's own query is replaced, even by nothing); so url and
\* target never occur in it and every other parameter is kept.
C8_FinalUrl ==
  Accepted =>
     LET t == NewURL(locals.targetUrl)
         f == outbound[1].url
     IN  /\ f.scheme = t.scheme
         /\ f.hostname = t.hostname
         /\ f.pathname = IF event.url.pathname = "/" THEN t.pathname
                         ELSE event.url.pathname
         /\ f.query = SelectSeq(event.url.query, IsForwardedParam)
         /\ \A i \in 1..Len(f.query) : ~IsRoutingParam(f.query[i])

----------------------------------------------------------------------------
(* C9 *)

RemovedNames ==
  {"cf-connecting-ip", "cf-ray", "cf-visitor", "cf-ipcountry",
   "x-target-url", "authorization"}
ForwardingNames == {"x-forwarded-for", "x-forwarded-proto", "x-forwarded-host"}

\* C9: every outbound request, whatever the inbound header set and the
\* casing of its names, has none of cf-connecting-ip, cf-ray, cf-visitor,
\* cf-ipcountry, x-target-url, authorization (with auth disabled too), has
\* X-Forwarded-For (the inbound CF-Connecting-IP value, or "unknown"),
\* X-Forwarded-Proto "https" and X-Forwarded-Host the inbound host, whatever
\* the caller sent for these three, and passes every other inbound header
\* through unchanged.
C9_OutboundHeaders ==
  \A k \in 1..Len(outbound) :
     LET out   == outbound[k].headers
         inb   == event.headers
         other == DOMAIN inb \ (RemovedNames \cup ForwardingNames)
     IN  /\ DOMAIN out \cap RemovedNames = {}
         /\ ForwardingNames \subseteq DOMAIN out
         /\ out["x-forwarded-for"] =
              IF "cf-connecting-ip" \in DOMAIN inb
                   /\ inb["cf-connecting-ip"] # Str("")
                THEN inb["cf-connecting-ip"] ELSE Str("unknown")
         /\ out["x-forwarded-proto"] = Str("https")
         /\ out["x-forwarded-host"] = Str(event.url.hostname)
         /\ DOMAIN out = other \cup ForwardingNames
         /\ \A n \in other : out[n] = inb[n]

\* with auth disabled, a request carrying Authorization and its own
\* X-Forwarded-For was forwarded
C9_Witness ==
  /\ Len(outbound) = 1
  /\ ~AuthRequired
  /\ "authorization" \in DOMAIN event.headers
  /\ "x-forwarded-for" \in DOMAIN event.headers

====
